---- MODULE Spec2Model ----
(***************************************************************************)
(* State-machine model of the repository analyzer: main() of              *)
(* src/src/main.py with the functions it calls (load_configuration,       *)
(* get_repo_info, get_file_contents, analyze_code_complexity,             *)
(* analyze_with_pylint, generate_markdown_report).                        *)
(*                                                                         *)
(* Python strings that the code only passes around are TLA+ strings; the  *)
(* strings the code inspects (file names, whose suffix is tested) are     *)
(* sequences of characters; multi-part texts (lint output, report lines)  *)
(* are sequences of tokens, the empty sequence being the empty string.    *)
(***************************************************************************)
EXTENDS Integers, Sequences, FiniteSets, TLC

\* ------------------------------------------------------------------ bounds

\* Longest repository listing explored.
MaxListing == 2

\* The max_file_size a configuration file sets in the explored runs.
SmallFileSize == 1

\* ------------------------------------------------------- Python values

NoneVal == [none |-> TRUE]

\* A local variable of main() that no assignment has reached yet.
Unbound == [unbound |-> TRUE]

\* ----------------------------------------------------------- file names

PySuffix == <<".", "p", "y">>

FileNames ==
  { <<"a", ".", "p", "y">>, <<"b", ".", "p", "y">>, <<"c", ".", "t", "x", "t">> }

\* A path the listing does not hold (the user may type any path).
OtherName == <<"x">>

\* str.endswith
EndsWith(s, suffix) ==
  /\ Len(s) >= Len(suffix)
  /\ SubSeq(s, Len(s) - Len(suffix) + 1, Len(s)) = suffix

\* ------------------------------------------------- the remote repository

\* What radon's cc_visit does with a text: it raises, or returns the blocks
\* it found, in source order.
CcResults ==
  { [raised |-> TRUE, blocks |-> <<>>],
    [raised |-> FALSE, blocks |-> <<>>],
    [raised |-> FALSE, blocks |-> <<[name |-> "f", complexity |-> 1]>>] }

\* A file text: its length (len(file_contents)) and what cc_visit makes of it.
\* The empty text has no block and parses.
Texts ==
  { [len |-> 0, cc |-> [raised |-> FALSE, blocks |-> <<>>]] }
    \cup { [len |-> n, cc |-> c] : n \in {SmallFileSize, SmallFileSize + 1}, c \in CcResults }

\* The text of a file that is not Python source.
PlainText == [len |-> SmallFileSize, cc |-> [raised |-> TRUE, blocks |-> <<>>]]

TextsOf(name) == IF EndsWith(name, PySuffix) THEN Texts ELSE {PlainText}

Range(s) == { s[i] : i \in DOMAIN s }

\* Listings of the GitHub contents API: the names of a directory are distinct.
Listings ==
  { s \in UNION { [1..n -> FileNames] : n \in 0..MaxListing } :
      \A i, j \in DOMAIN s : i # j => s[i] # s[j] }

\* description and language of the API response (JSON null is None).
RepoDescriptions ==
  { [description |-> NoneVal, language |-> NoneVal],
    [description |-> [text |-> "A demo"], language |-> [text |-> "Python"]] }

\* The texts of the listed files.
RemoteFiles(l) ==
  { g \in [Range(l) -> Texts \cup {PlainText}] : \A k \in Range(l) : g[k] \in TextsOf(k) }

Remotes ==
  UNION { { [name |-> "demo", description |-> d.description, language |-> d.language,
             stars |-> 5, listing |-> l, files |-> f] :
              d \in RepoDescriptions, f \in RemoteFiles(l) } : l \in Listings }

\* ----------------------------------------------------------- configuration

\* dict.get(key, default)
Get(d, key, default) == IF key \in DOMAIN d THEN d[key] ELSE default

DefaultMaxFileSize == 1048576

get_default_config ==
  [github |-> [api_version |-> "v3", max_file_size |-> DefaultMaxFileSize],
   logging |-> [level |-> "INFO", file_path |-> "logs/"],
   report |-> [output_formats |-> <<"markdown", "html">>,
               include_sections |-> <<"complexity", "halstead_metrics", "pylint_issues">>]]

\* Documents a config.yaml may hold.
DocSmall ==
  [github |-> [api_version |-> "v3", max_file_size |-> SmallFileSize],
   logging |-> [level |-> "INFO", file_path |-> "logs/"],
   report |-> [output_formats |-> <<"markdown">>,
               include_sections |-> <<"complexity", "halstead_metrics", "pylint_issues">>]]

DocNoSections ==
  [github |-> [api_version |-> "v3"],
   logging |-> [level |-> "INFO", file_path |-> "logs/"],
   report |-> [output_formats |-> <<"markdown", "html">>, include_sections |-> <<>>]]

DocNoReport ==
  [github |-> [api_version |-> "v3", max_file_size |-> SmallFileSize],
   logging |-> [level |-> "INFO", file_path |-> "logs/"]]

\* The states of config/config.yaml: absent, not parsable, or holding a
\* document (an empty file loads as None).
ConfigFiles ==
  { [kind |-> "missing", doc |-> NoneVal], [kind |-> "yaml_error", doc |-> NoneVal] }
    \cup { [kind |-> "doc", doc |-> d] :
             d \in {NoneVal, DocSmall, DocNoSections, DocNoReport} }

RequiredKeys == <<"github", "logging", "report">>

\* validate_config: the exception it raises, "" when it returns.
validate_config(config) ==
  IF config = NoneVal THEN "TypeError"
  ELSE IF \E i \in DOMAIN RequiredKeys : RequiredKeys[i] \notin DOMAIN config THEN "ValueError"
  ELSE ""

\* load_configuration: only FileNotFoundError and yaml.YAMLError are handled.
load_configuration(file) ==
  IF file.kind = "missing" THEN [raised |-> "", value |-> get_default_config]
  ELSE IF file.kind = "yaml_error" THEN [raised |-> "", value |-> get_default_config]
  ELSE IF validate_config(file.doc) # "" THEN [raised |-> validate_config(file.doc), value |-> NoneVal]
  ELSE [raised |-> "", value |-> file.doc]

\* ------------------------------------------------------- the file analyzer

HalsteadFields == {"volume", "difficulty", "effort"}

\* What radon's h_visit does: it raises, or returns a list of n items, or an
\* object that has the attributes `has`, each of value `val`.
HvOutcomes ==
  { [kind |-> "raise", n |-> 0, has |-> {}, val |-> 0],
    [kind |-> "list", n |-> 0, has |-> {}, val |-> 0],
    [kind |-> "list", n |-> 1, has |-> {}, val |-> 0],
    [kind |-> "obj", n |-> 0, has |-> {}, val |-> 0],
    [kind |-> "obj", n |-> 0, has |-> HalsteadFields, val |-> 3] }

\* getattr(obj, field, default)
Getattr(h, field, default) == IF field \in h.has THEN h.val ELSE default

ZeroHalstead == [volume |-> 0, difficulty |-> 0, effort |-> 0]

\* halstead_data of analyze_code_complexity: a list has no attribute volume,
\* so the non-empty list raises AttributeError inside the inner try.
HalsteadData(h) ==
  IF h.kind = "raise" THEN ZeroHalstead
  ELSE IF h.kind = "list" THEN (IF h.n > 0 THEN ZeroHalstead ELSE ZeroHalstead)
  ELSE [volume |-> Getattr(h, "volume", 0),
        difficulty |-> Getattr(h, "difficulty", 0),
        effort |-> Getattr(h, "effort", 0)]

\* What the lint step meets: open() of the transient file fails, lint.Run
\* raises, os.remove raises, or all three succeed and pylint printed `out`.
LintOutcomes ==
  { [kind |-> "ok", out |-> <<>>],
    [kind |-> "ok", out |-> <<"W0611: unused import">>],
    [kind |-> "open_fail", out |-> <<>>],
    [kind |-> "run_raise", out |-> <<>>],
    [kind |-> "remove_fail", out |-> <<>>] }

\* str(e) of the exception each failure raises.
ErrorText(kind) ==
  CASE kind = "open_fail" -> "Permission denied"
    [] kind = "run_raise" -> "pylint crashed"
    [] kind = "remove_fail" -> "file in use"
    [] OTHER -> ""

\* analyze_with_pylint(file_content, filename) run with the transient files
\* `temps` on disk and sys.stdout = `out`: its return value, the transient
\* files and sys.stdout when it returns.  It catches every Exception itself.
analyze_with_pylint(filename, lint, temps, out) ==
  IF lint.kind = "open_fail" THEN
    [raised |-> FALSE, output |-> <<"Unable to perform Pylint analysis: ", ErrorText(lint.kind)>>,
     temps |-> temps, stdout |-> out]
  ELSE IF lint.kind = "run_raise" THEN
    [raised |-> FALSE, output |-> <<"Unable to perform Pylint analysis: ", ErrorText(lint.kind)>>,
     temps |-> temps \cup {filename}, stdout |-> "StringIO"]
  ELSE IF lint.kind = "remove_fail" THEN
    [raised |-> FALSE, output |-> <<"Unable to perform Pylint analysis: ", ErrorText(lint.kind)>>,
     temps |-> temps \cup {filename}, stdout |-> out]
  ELSE
    [raised |-> FALSE, output |-> lint.out, temps |-> temps \ {filename}, stdout |-> out]

\* The placeholder of line 182.
LintUnavailable == <<"Unable to perform Pylint analysis">>

\* Mutant: the complexity step defaults to an empty sequence instead of
\* failing the whole call.
analyze_code_complexity_cc_default(text, filename, hv, lint, temps, out) ==
  LET p == analyze_with_pylint(filename, lint, temps, out)
  IN [result |-> [cyclomatic_complexity |-> text.cc.blocks,
                  halstead_metrics |-> HalsteadData(hv),
                  pylint_issues |-> p.output],
      lint_ran |-> TRUE, temps |-> p.temps, stdout |-> p.stdout]

\* Mutant: no failure boundary around the volume metrics (the attributes
\* are read directly, as in the earlier src/main.py), so that any failure
\* there reaches the outer handler.
analyze_code_complexity_no_boundary(text, filename, hv, lint, temps, out) ==
  IF text.cc.raised \/ hv.kind # "obj" \/ hv.has # HalsteadFields THEN
    [result |-> NoneVal, lint_ran |-> FALSE, temps |-> temps, stdout |-> out]
  ELSE
    LET p == analyze_with_pylint(filename, lint, temps, out)
    IN [result |-> [cyclomatic_complexity |-> text.cc.blocks,
                    halstead_metrics |-> HalsteadData(hv),
                    pylint_issues |-> p.output],
        lint_ran |-> TRUE, temps |-> p.temps, stdout |-> p.stdout]

\* analyze_code_complexity(file_content, filename): the record it returns
\* (None when cc_visit raises), whether the lint step ran, and the transient
\* files and sys.stdout it leaves.
analyze_code_complexity(text, filename, hv, lint, temps, out) ==
  IF text.cc.raised THEN
    [result |-> NoneVal, lint_ran |-> FALSE, temps |-> temps, stdout |-> out]
  ELSE
    LET halstead_data == HalsteadData(hv)
        p == analyze_with_pylint(filename, lint, temps, out)
        pylint_output == IF p.raised THEN LintUnavailable ELSE p.output
    IN [result |-> [cyclomatic_complexity |-> text.cc.blocks,
                    halstead_metrics |-> halstead_data,
                    pylint_issues |-> pylint_output],
        lint_ran |-> TRUE, temps |-> p.temps, stdout |-> p.stdout]

\* ------------------------------------------------------------- the report

\* An insertion-ordered dict is a sequence of [key, value] entries.
Keys(d) == [i \in DOMAIN d |-> d[i].key]

HasKey(d, k) == \E i \in DOMAIN d : d[i].key = k

Lookup(d, k) == d[CHOOSE i \in DOMAIN d : d[i].key = k].value

\* d[k] = v: a new key is appended, an old key keeps its place.
DictSet(d, k, v) ==
  IF HasKey(d, k)
  THEN [i \in DOMAIN d |-> IF d[i].key = k THEN [key |-> k, value |-> v] ELSE d[i]]
  ELSE Append(d, [key |-> k, value |-> v])

\* f"{value}" of an optional string.
Format(v) == IF v = NoneVal THEN "None" ELSE v.text

\* Lines 233-240: the title, the overview and the heading of the details.
\* The defaults of .get are used for a missing key only; get_repo_info
\* always sets the keys description, language and stars.
Overview(repo_info, date) ==
  << [title |-> repo_info.name],
     [text |-> "## Repository Overview"],
     [label |-> "Description",
      shown |-> Format(Get(repo_info, "description", [text |-> "No description"]))],
     [label |-> "Primary Language",
      shown |-> Format(Get(repo_info, "language", [text |-> "Unknown"]))],
     [stars |-> Get(repo_info, "stars", "N/A")],
     [analysis_date |-> date],
     [text |-> "## Code Analysis Details"] >>

ComplexityLines(blocks) ==
  IF blocks # <<>>
  THEN [i \in DOMAIN blocks |-> [symbol |-> blocks[i].name, complexity |-> blocks[i].complexity]]
  ELSE << [text |-> "- No complexity analysis available"] >>

\* Mutant: the volume subsection tests the values, not the dict, so that an
\* all-zero triple is rendered as the 'not available' line.
HalsteadLines_zero_is_missing(metrics) ==
  IF metrics = ZeroHalstead
  THEN << [text |-> "- No Halstead metrics available"] >>
  ELSE << [metric |-> "Volume", value |-> metrics.volume, decimals |-> 2],
          [metric |-> "Difficulty", value |-> metrics.difficulty, decimals |-> 2],
          [metric |-> "Effort", value |-> metrics.effort, decimals |-> 2] >>

\* The three values of a non-empty dict, each formatted :.2f.
HalsteadLines(metrics) ==
  << [metric |-> "Volume", value |-> metrics.volume, decimals |-> 2],
     [metric |-> "Difficulty", value |-> metrics.difficulty, decimals |-> 2],
     [metric |-> "Effort", value |-> metrics.effort, decimals |-> 2] >>

IssueLines(pylint_issues) ==
  IF pylint_issues # <<>>
  THEN << [text |-> "code fence"], [verbatim |-> pylint_issues], [text |-> "code fence"] >>
  ELSE << [text |-> "- No significant issues detected"] >>

\* Lines 243-272: one iteration of the loop over file_analyses.items().
FileSection(filename, analysis) ==
  << [file |-> filename], [text |-> "#### Cyclomatic Complexity"] >>
    \o ComplexityLines(analysis.cyclomatic_complexity)
    \o << [text |-> "#### Halstead Metrics"] >>
    \o HalsteadLines(analysis.halstead_metrics)
    \o << [text |-> "#### Code Quality Issues"] >>
    \o IssueLines(analysis.pylint_issues)
    \o << [text |-> "---"] >>

\* generate_markdown_report(repo_info, file_analyses), the clock reading
\* t_date, t_md and t_html at its three datetime.now() calls.  The code that
\* writes the two files and returns (lines 274-304) is indented into the
\* loop body: it runs at the end of the first iteration.  With no entry the
\* loop body never runs and the function returns None.
generate_markdown_report(repo_info, file_analyses, t_date, t_md, t_html) ==
  IF file_analyses = <<>> THEN NoneVal
  ELSE
    LET report == Overview(repo_info, t_date)
                    \o FileSection(file_analyses[1].key, file_analyses[1].value)
    IN [output_file |-> [stem |-> repo_info.name, stamp |-> t_md, ext |-> "md"],
        html_output |-> [stem |-> repo_info.name, stamp |-> t_html, ext |-> "html"],
        report |-> report,
        html |-> [body |-> report]]

\* The per-file sections of a report text, in order.
SectionNames(report) ==
  LET idxs == { i \in DOMAIN report : "file" \in DOMAIN report[i] }
      RECURSIVE Collect(_)
      Collect(i) ==
        IF i > Len(report) THEN <<>>
        ELSE IF i \in idxs THEN <<report[i].file>> \o Collect(i + 1)
        ELSE Collect(i + 1)
  IN Collect(1)

\* ------------------------------------------------------ repository client

\* Mutant: the responses are used without raise_for_status.
get_repo_info_unchecked(repo, ok) ==
  [name |-> repo.name, description |-> repo.description, language |-> repo.language,
   stars |-> repo.stars, contents |-> repo.listing]

\* get_repo_info: the dict of lines 92-98, or None when a request fails.
get_repo_info(repo, ok) ==
  IF ok
  THEN [name |-> repo.name, description |-> repo.description, language |-> repo.language,
        stars |-> repo.stars, contents |-> repo.listing]
  ELSE NoneVal

\* get_file_contents: the decoded text, or None when the request fails
\* (a path the repository does not hold is answered 404).
get_file_contents(repo, path, ok) ==
  IF ok /\ path \in DOMAIN repo.files THEN repo.files[path] ELSE NoneVal

\* bool(file_contents) of a fetched value: None and the empty text are falsy.
Truthy(fc) == fc # NoneVal /\ fc.len > 0

\* ------------------------------------------------------------------ main()

VARIABLES
  remote,         \* the repository on GitHub
  pc,             \* where main() is
  err,            \* the exception main()'s handler caught, "" if none
  config,         \* config
  repo_info,      \* repo_info
  file_contents,  \* file_contents: one local, set by the optional read and by the loop
  file_analyses,  \* file_analyses
  idx,            \* position of the analysis loop in repo_info['contents']
  metadata,       \* how the requests of get_repo_info ended: "pending", "ok", "failed"
  fetched,        \* the files the analysis loop fetched, in order
  failed,         \* those of them whose fetch returned None
  analysed,       \* the files passed to analyze_code_complexity
  lastCall,       \* the analyze_code_complexity call the latest step made, if any
  tempFiles,      \* the files temp_<filename> on disk
  stdout,         \* sys.stdout
  written,        \* the report files on disk
  returned,       \* (md_report, html_report) of line 438
  agent           \* the locals of GitHubRepositoryAgent.analyze_repository

vars ==
  << remote, pc, err, config, repo_info, file_contents, file_analyses, idx, metadata,
     fetched, failed, analysed, lastCall, tempFiles, stdout, written, returned, agent >>

\* analyze_repository before its first statement.
AgentStart ==
  [pc |-> "start", repo_info |-> NoneVal, python_files |-> <<>>, i |-> 1,
   analysis_results |-> <<>>, result |-> NoneVal]

NoCall == [called |-> FALSE]

Init ==
  /\ remote \in Remotes
  /\ pc = "load_config"
  /\ err = ""
  /\ config = NoneVal
  /\ repo_info = NoneVal
  /\ file_contents = Unbound
  /\ file_analyses = <<>>
  /\ idx = 1
  /\ metadata = "pending"
  /\ fetched = <<>>
  /\ failed = {}
  /\ analysed = {}
  /\ lastCall = NoCall
  /\ tempFiles = {}
  /\ stdout = "console"
  /\ written = {}
  /\ returned = NoneVal
  /\ agent = AgentStart

\* Lines 361-365: an exception of load_configuration reaches main()'s handler.
LoadConfiguration ==
  /\ pc = "load_config"
  /\ \E file \in ConfigFiles :
       LET c == load_configuration(file) IN
         IF c.raised # ""
         THEN /\ pc' = "aborted"
              /\ err' = c.raised
              /\ UNCHANGED config
         ELSE /\ pc' = "get_repo_info"
              /\ config' = c.value
              /\ UNCHANGED err
  /\ UNCHANGED << remote, repo_info, file_contents, file_analyses, idx, metadata, fetched,
                  failed, analysed, lastCall, tempFiles, stdout, written, returned >>
  /\ UNCHANGED agent

\* Lines 377-380.
GetRepoInfo ==
  /\ pc = "get_repo_info"
  /\ \E ok \in BOOLEAN :
       /\ repo_info' = get_repo_info(remote, ok)
       /\ metadata' = IF ok THEN "ok" ELSE "failed"
       /\ pc' = IF repo_info' # NoneVal THEN "read_file" ELSE "done"
  /\ UNCHANGED << remote, err, config, file_contents, file_analyses, idx, fetched, failed,
                  analysed, lastCall, tempFiles, stdout, written, returned >>
  /\ UNCHANGED agent

\* Lines 386-401: the optional read of one file; the empty answer skips it.
ReadFile ==
  /\ pc = "read_file"
  /\ \E file_to_read \in {<<>>, OtherName} \cup Range(repo_info.contents), ok \in BOOLEAN :
       file_contents' = IF file_to_read # <<>>
                        THEN get_file_contents(remote, file_to_read, ok)
                        ELSE file_contents
  /\ file_analyses' = <<>>
  /\ idx' = 1
  /\ pc' = "loop"
  /\ UNCHANGED << remote, err, config, repo_info, metadata, fetched, failed, analysed,
                  lastCall, tempFiles, stdout, written, returned >>
  /\ UNCHANGED agent

\* config['github'].get('max_file_size', 1048576)
max_file_size(cfg) == Get(cfg.github, "max_file_size", DefaultMaxFileSize)

\* Mutant: the condition without its suffix test.
Eligible_any_suffix(file, cfg, fc) ==
  IF Get(cfg.report, "include_sections", <<>>) = <<>> THEN "skip"
  ELSE IF fc = Unbound THEN "UnboundLocalError"
  ELSE IF fc = NoneVal THEN "TypeError"
  ELSE IF fc.len <= max_file_size(cfg) THEN "fetch"
  ELSE "skip"

\* The condition of lines 407-409, evaluated left to right with the value
\* file_contents holds when the iteration starts: "fetch" when it is true,
\* "skip" when it is false, else the exception len() raises.
Eligible(file, cfg, fc) ==
  IF ~EndsWith(file, PySuffix) THEN "skip"
  ELSE IF Get(cfg.report, "include_sections", <<>>) = <<>> THEN "skip"
  ELSE IF fc = Unbound THEN "UnboundLocalError"
  ELSE IF fc = NoneVal THEN "TypeError"
  ELSE IF fc.len <= max_file_size(cfg) THEN "fetch"
  ELSE "skip"

\* One iteration whose condition is false.
SkipEntry ==
  /\ pc = "loop"
  /\ idx <= Len(repo_info.contents)
  /\ Eligible(repo_info.contents[idx], config, file_contents) = "skip"
  /\ idx' = idx + 1
  /\ lastCall' = NoCall
  /\ UNCHANGED << remote, pc, err, config, repo_info, file_contents, file_analyses, metadata,
                  fetched, failed, analysed, tempFiles, stdout, written, returned >>
  /\ UNCHANGED agent

\* One iteration whose condition raises: lines 447-449 end the run.
AbortEntry ==
  /\ pc = "loop"
  /\ idx <= Len(repo_info.contents)
  /\ Eligible(repo_info.contents[idx], config, file_contents) \in {"UnboundLocalError", "TypeError"}
  /\ pc' = "aborted"
  /\ err' = Eligible(repo_info.contents[idx], config, file_contents)
  /\ lastCall' = NoCall
  /\ UNCHANGED << remote, config, repo_info, file_contents, file_analyses, idx, metadata,
                  fetched, failed, analysed, tempFiles, stdout, written, returned >>
  /\ UNCHANGED agent

\* One iteration whose condition is true: lines 411-432.
AnalyzeEntry ==
  /\ pc = "loop"
  /\ idx <= Len(repo_info.contents)
  /\ Eligible(repo_info.contents[idx], config, file_contents) = "fetch"
  /\ \E ok \in BOOLEAN, hv \in HvOutcomes, lint \in LintOutcomes :
       LET file == repo_info.contents[idx]
           fc == get_file_contents(remote, file, ok)
           a == analyze_code_complexity(fc, file, hv, lint, tempFiles, stdout)
       IN /\ file_contents' = fc
          /\ fetched' = Append(fetched, file)
          /\ failed' = IF fc = NoneVal THEN failed \cup {file} ELSE failed
          /\ IF Truthy(fc)
             THEN /\ analysed' = analysed \cup {file}
                  /\ lastCall' = [called |-> TRUE, file |-> file, text |-> fc, hv |-> hv,
                                  lint |-> lint, lint_ran |-> a.lint_ran, result |-> a.result]
                  /\ tempFiles' = a.temps
                  /\ stdout' = a.stdout
                  /\ file_analyses' = IF a.result # NoneVal
                                      THEN DictSet(file_analyses, file, a.result)
                                      ELSE file_analyses
             ELSE /\ lastCall' = NoCall
                  /\ UNCHANGED << analysed, tempFiles, stdout, file_analyses >>
  /\ idx' = idx + 1
  /\ UNCHANGED << remote, pc, err, config, repo_info, metadata, written, returned >>
  /\ UNCHANGED agent

\* Mutant: the report is generated whatever file_analyses holds.
ShouldReportAlways(fa) == TRUE

\* if file_analyses: (line 435)
ShouldReport(fa) == fa # <<>>

\* Lines 434-442 after the last entry: the report is generated when
\* file_analyses is not empty; unpacking None raises TypeError.
Report ==
  /\ pc = "loop"
  /\ idx > Len(repo_info.contents)
  /\ IF ShouldReport(file_analyses)
     THEN \E tick \in BOOLEAN :
            LET r == generate_markdown_report(repo_info, file_analyses, 0, 0,
                                              IF tick THEN 1 ELSE 0)
            IN IF r = NoneVal
               THEN /\ pc' = "aborted"
                    /\ err' = "TypeError"
                    /\ UNCHANGED << written, returned >>
               ELSE /\ written' = written \cup { [path |-> r.output_file, content |-> r.report],
                                                 [path |-> r.html_output, content |-> r.html.body] }
                    /\ returned' = [md_report |-> r.output_file, html_report |-> r.html_output]
                    /\ pc' = "done"
                    /\ UNCHANGED err
     ELSE /\ pc' = "done"
          /\ UNCHANGED << err, written, returned >>
  /\ lastCall' = NoCall
  /\ UNCHANGED << remote, config, repo_info, file_contents, file_analyses, idx, metadata,
                  fetched, failed, analysed, tempFiles, stdout >>
  /\ UNCHANGED agent

\* A KeyboardInterrupt raised between two iterations of the loop: lines
\* 444-446 log and print that the operation was cancelled, and main() returns.
Cancel ==
  /\ pc = "loop"
  /\ idx <= Len(repo_info.contents)
  /\ pc' = "cancelled"
  /\ lastCall' = NoCall
  /\ UNCHANGED << remote, err, config, repo_info, file_contents, file_analyses, idx, metadata,
                  fetched, failed, analysed, tempFiles, stdout, written, returned >>
  /\ UNCHANGED agent

Next ==
  \/ LoadConfiguration
  \/ GetRepoInfo
  \/ ReadFile
  \/ SkipEntry
  \/ AbortEntry
  \/ AnalyzeEntry
  \/ Report
  \/ Cancel

Spec == Init /\ [][Next]_vars

\* ---------------------------- GitHubRepositoryAgent.analyze_repository

\* python_files[:3]
AgentFileLimit == 3

\* s[:n]
Prefix(s, n) == SubSeq(s, 1, IF Len(s) < n THEN Len(s) ELSE n)

\* The variables of main(), which analyze_repository does not touch.
mainLocals ==
  << remote, pc, err, config, repo_info, file_contents, file_analyses, idx, metadata,
     fetched, failed, analysed, lastCall, written, returned >>

\* Lines 73-81: the metadata; a falsy repo_info returns the error dict,
\* otherwise the '.py' entries of the listing are selected.
AgentGetRepoInfo ==
  /\ agent.pc = "start"
  /\ \E ok \in BOOLEAN :
       LET info == get_repo_info(remote, ok)
       IN IF info = NoneVal
          THEN agent' = [agent EXCEPT !.pc = "returned",
                           !.result = [error |-> "Failed to fetch repository information"]]
          ELSE agent' = [agent EXCEPT !.pc = "loop", !.repo_info = info,
                           !.python_files =
                              IF "contents" \in DOMAIN info
                              THEN SelectSeq(info.contents, LAMBDA f : EndsWith(f, PySuffix))
                              ELSE <<>>]
  /\ UNCHANGED << mainLocals, tempFiles, stdout >>

\* Lines 83-87: one iteration over python_files[:3]; a truthy text is
\* analysed and whatever analyze_code_complexity returns is stored.
AgentAnalyzeFile ==
  /\ agent.pc = "loop"
  /\ agent.i <= Len(Prefix(agent.python_files, AgentFileLimit))
  /\ \E ok \in BOOLEAN, hv \in HvOutcomes, lint \in LintOutcomes :
       LET file == agent.python_files[agent.i]
           fc == get_file_contents(remote, file, ok)
           a == analyze_code_complexity(fc, file, hv, lint, tempFiles, stdout)
       IN IF Truthy(fc)
          THEN /\ agent' = [agent EXCEPT !.i = @ + 1,
                              !.analysis_results = DictSet(@, file, a.result)]
               /\ tempFiles' = a.temps
               /\ stdout' = a.stdout
          ELSE /\ agent' = [agent EXCEPT !.i = @ + 1]
               /\ UNCHANGED << tempFiles, stdout >>
  /\ UNCHANGED mainLocals

\* Lines 89-92: the dict analyze_repository returns.
AgentReturn ==
  /\ agent.pc = "loop"
  /\ agent.i > Len(Prefix(agent.python_files, AgentFileLimit))
  /\ agent' = [agent EXCEPT !.pc = "returned",
                  !.result = [repository_info |-> agent.repo_info,
                              analysis_results |-> agent.analysis_results]]
  /\ UNCHANGED << mainLocals, tempFiles, stdout >>

NextAgent ==
  \/ AgentGetRepoInfo
  \/ AgentAnalyzeFile
  \/ AgentReturn

SpecAgent == Init /\ [][NextAgent]_vars

\* ------------------------------------------------------------------ claims

\* C1 (as claimed): a failed fetch in the analysis loop never aborts the
\* run: whenever some fetch of the loop returned None the run is not aborted,
\* the failed files are no keys of file_analyses, and a run that ended has
\* visited every entry and has reported the files it recorded.
C1_FetchFailureContained ==
  failed # {} =>
    /\ pc # "aborted"
    /\ \A f \in failed : ~HasKey(file_analyses, f)
    /\ pc = "done" => /\ idx > Len(repo_info.contents)
                      /\ file_analyses # <<>> => returned # NoneVal

\* C2 (as claimed): a file whose own fetched text is longer than
\* max_file_size is never passed to analyze_code_complexity and is no key of
\* file_analyses.
C2_OversizeNeverAnalysed ==
  pc \notin {"load_config", "get_repo_info"} /\ repo_info # NoneVal =>
    \A f \in Range(fetched) \ failed :
      remote.files[f].len > max_file_size(config) =>
        f \notin analysed /\ ~HasKey(file_analyses, f)

\* C3 (as claimed, for the files the loop did fetch and with a non-empty
\* include_sections): when the loop has ended, every '.py' entry whose fetch
\* succeeded, whose text is no longer than max_file_size and for which
\* cc_visit does not raise (so that analyze_code_complexity returns a record)
\* is a key of file_analyses mapped to the record of that text, the empty
\* text included.
C3_EligibleFilesRecorded ==
  pc = "done" /\ repo_info # NoneVal /\ Get(config.report, "include_sections", <<>>) # <<>> =>
    \A f \in Range(fetched) \ failed :
      ( /\ EndsWith(f, PySuffix)
        /\ remote.files[f].len <= max_file_size(config)
        /\ ~remote.files[f].cc.raised )
      => /\ HasKey(file_analyses, f)
         /\ Lookup(file_analyses, f).cyclomatic_complexity = remote.files[f].cc.blocks
\* C4: when cc_visit raises for a file, analyze_code_complexity returns
\* None, the file is no key of file_analyses (then and ever after), and the
\* loop is at the next entry, whose condition does not raise.
C4_ComplexityFailureSkipsFile ==
  /\ lastCall.called /\ lastCall.text.cc.raised =>
       /\ lastCall.result = NoneVal
       /\ ~HasKey(file_analyses, lastCall.file)
       /\ pc = "loop"
       /\ repo_info.contents[idx - 1] = lastCall.file
       /\ idx <= Len(repo_info.contents) =>
            Eligible(repo_info.contents[idx], config, file_contents) \in {"skip", "fetch"}
  /\ \A f \in analysed : remote.files[f].cc.raised => ~HasKey(file_analyses, f)

\* A run has ended in which cc_visit raised for one file and a later entry
\* was recorded.
C4_Witness ==
  /\ pc = "done"
  /\ repo_info # NoneVal
  /\ \E i, j \in DOMAIN repo_info.contents :
       /\ i < j
       /\ repo_info.contents[i] \in analysed
       /\ remote.files[repo_info.contents[i]].cc.raised
       /\ HasKey(file_analyses, repo_info.contents[j])

\* h_visit raised, or returned a list, or an object with none of the fields.
HvDegraded(hv) == hv.kind \in {"raise", "list"} \/ hv.has \cap HalsteadFields = {}

\* C5: when cc_visit succeeds and h_visit raises, returns a list or returns
\* an object without the fields, analyze_code_complexity returns a record
\* whose halstead_metrics is volume 0, difficulty 0, effort 0, the lint step
\* has run, and the file is a key of file_analyses mapped to that record.
C5_VolumeFailureDefaultsToZero ==
  lastCall.called /\ ~lastCall.text.cc.raised /\ HvDegraded(lastCall.hv) =>
    /\ lastCall.result # NoneVal
    /\ lastCall.result.halstead_metrics = ZeroHalstead
    /\ lastCall.result.cyclomatic_complexity = lastCall.text.cc.blocks
    /\ lastCall.lint_ran
    /\ HasKey(file_analyses, lastCall.file)
    /\ Lookup(file_analyses, lastCall.file) = lastCall.result

\* h_visit returned a non-empty list for a file that was recorded.
C5_Witness ==
  /\ lastCall.called
  /\ ~lastCall.text.cc.raised
  /\ lastCall.hv.kind = "list"
  /\ lastCall.hv.n > 0
  /\ HasKey(file_analyses, lastCall.file)

\* C6 (as claimed): when the lint step fails, the record keeps the
\* complexity and volume results and its pylint_issues is the one fixed
\* placeholder, whatever the error was.
C6_LintFailureFixedPlaceholder ==
  lastCall.called /\ lastCall.lint_ran /\ lastCall.lint.kind # "ok" =>
    /\ lastCall.result # NoneVal
    /\ lastCall.result.cyclomatic_complexity = lastCall.text.cc.blocks
    /\ lastCall.result.halstead_metrics = HalsteadData(lastCall.hv)
    /\ lastCall.result.pylint_issues = LintUnavailable

\* C7 (as claimed): when analyze_with_pylint has returned, the transient
\* file of that call is gone, and no transient file is ever left on disk.
C7_NoTransientFileLeft ==
  /\ lastCall.called /\ lastCall.lint_ran => lastCall.file \notin tempFiles
  /\ tempFiles = {}

\* C8: when the requests of get_repo_info fail, repo_info is None and the
\* run ends there: nothing is read, fetched or analysed and no report file
\* is written.
C8_MetadataFailureStopsRun ==
  metadata = "failed" =>
    /\ pc = "done"
    /\ repo_info = NoneVal
    /\ file_contents = Unbound
    /\ fetched = <<>>
    /\ analysed = {}
    /\ file_analyses = <<>>
    /\ tempFiles = {}
    /\ written = {}
    /\ returned = NoneVal

\* The run has ended after a failed metadata fetch.
C8_Witness == metadata = "failed" /\ pc = "done"

C10_OneSectionPerFile ==
  returned # NoneVal =>
    \E w \in written :
      /\ w.path = returned.md_report
      /\ SectionNames(w.content) = Keys(file_analyses)
\* The overview lines of a report text that show `label`.
Shown(report, label) ==
  { report[i].shown : i \in { j \in DOMAIN report :
                                "label" \in DOMAIN report[j] /\ report[j].label = label } }

\* C11 (as claimed): in every report written, a description that is None is
\* shown as 'No description' and a language that is None as 'Unknown'.
C11_MissingValuePlaceholders ==
  \A w \in written :
    /\ repo_info.description = NoneVal => Shown(w.content, "Description") = {"No description"}
    /\ repo_info.language = NoneVal => Shown(w.content, "Primary Language") = {"Unknown"}

\* C13 (as claimed): a run that generated the report wrote exactly one
\* markdown and one HTML file, returned their two paths, and the two paths
\* have the same stem and the same timestamp.
C13_OneStemForBothFiles ==
  returned # NoneVal =>
    /\ { w.path : w \in written } = {returned.md_report, returned.html_report}
    /\ Cardinality(written) = 2
    /\ returned.md_report.ext = "md"
    /\ returned.html_report.ext = "html"
    /\ returned.md_report.stem = returned.html_report.stem
    /\ returned.md_report.stamp = returned.html_report.stamp

\* C14 (as claimed): load_configuration always hands main() a configuration,
\* whatever config.yaml holds.
C14_ConfigurationNeverAborts ==
  pc # "load_config" => config # NoneVal /\ ~(pc = "aborted" /\ metadata = "pending")

\* C18 (as claimed): sys.stdout is the console stream whenever
\* analyze_with_pylint has returned, so it is in every state of the run.
C18_StdoutRestored ==
  /\ lastCall.called /\ lastCall.lint_ran => stdout = "console"
  /\ stdout = "console"

\* The report.output_formats name of a file extension.
FormatOf(ext) == IF ext = "md" THEN "markdown" ELSE ext

\* C20 (as claimed): every report file written is of a format listed in
\* report.output_formats.
C20_OnlyConfiguredFormats ==
  \A w \in written :
    FormatOf(w.path.ext) \in Range(Get(config.report, "output_formats", <<"markdown", "html">>))
\* C15 (as claimed): a run cancelled between two files reports the records
\* it had accumulated: when file_analyses is not empty a report of it is
\* written.
C15_CancellationReportsPartialResult ==
  pc = "cancelled" /\ file_analyses # <<>> => returned # NoneVal /\ written # {}

\* The position of a listed name.
PositionIn(listing, name) == CHOOSE i \in DOMAIN listing : listing[i] = name

\* C17: once the metadata is fetched, the keys of file_analyses are distinct,
\* end with '.py', occur in the listing before the position of the loop and
\* follow the order of the listing; and every file the loop fetched or
\* analysed ends with '.py'.
C17_KeysFollowListing ==
  repo_info # NoneVal =>
    LET keys == Keys(file_analyses)
        contents == repo_info.contents
    IN /\ \A i, j \in DOMAIN keys : i # j => keys[i] # keys[j]
       /\ \A i \in DOMAIN keys :
            /\ EndsWith(keys[i], PySuffix)
            /\ \E p \in DOMAIN contents : p < idx /\ contents[p] = keys[i]
       /\ \A i, j \in DOMAIN keys :
            i < j => PositionIn(contents, keys[i]) < PositionIn(contents, keys[j])
       /\ \A f \in Range(fetched) \cup analysed : EndsWith(f, PySuffix)

\* Two files have been recorded.
C17_Witness == pc = "done" /\ Len(file_analyses) = 2

\* C12: every per-file section of a written report holds, after its heading,
\* the complexity subsection (one line per block, or the fixed line for no
\* block), then the volume subsection (the three values of the record, two
\* decimals each, zeros included), then the diagnostics subsection (the lint
\* text verbatim, or the fixed line for the empty text).
C12_ThreeSubsections ==
  \A w \in written :
    \A i \in DOMAIN w.content :
      "file" \in DOMAIN w.content[i] =>
        /\ HasKey(file_analyses, w.content[i].file)
        /\ LET a == Lookup(file_analyses, w.content[i].file)
               blocks == a.cyclomatic_complexity
               nc == IF blocks = <<>> THEN 1 ELSE Len(blocks)
               h == i + 2 + nc
               line == w.content
           IN /\ Len(line) >= h + 5
              /\ line[i + 1] = [text |-> "#### Cyclomatic Complexity"]
              /\ blocks = <<>> => line[i + 2] = [text |-> "- No complexity analysis available"]
              /\ \A b \in DOMAIN blocks :
                   line[i + 1 + b] = [symbol |-> blocks[b].name, complexity |-> blocks[b].complexity]
              /\ line[h] = [text |-> "#### Halstead Metrics"]
              /\ line[h + 1] = [metric |-> "Volume", value |-> a.halstead_metrics.volume, decimals |-> 2]
              /\ line[h + 2] = [metric |-> "Difficulty", value |-> a.halstead_metrics.difficulty, decimals |-> 2]
              /\ line[h + 3] = [metric |-> "Effort", value |-> a.halstead_metrics.effort, decimals |-> 2]
              /\ line[h + 4] = [text |-> "#### Code Quality Issues"]
              /\ a.pylint_issues = <<>> => line[h + 5] = [text |-> "- No significant issues detected"]
              /\ a.pylint_issues # <<>> =>
                   Len(line) >= h + 6 /\ line[h + 6] = [verbatim |-> a.pylint_issues]

\* A section was written for a record with no block, an all-zero triple and
\* empty lint text.
C12_Witness ==
  /\ written # {}
  /\ file_analyses[1].value =
       [cyclomatic_complexity |-> <<>>, halstead_metrics |-> ZeroHalstead, pylint_issues |-> <<>>]
\* C19 (as claimed): every key of the agent's analysis_results maps to a
\* record: the file of a failed analysis has no key.
C19_AgentResultsAreRecords ==
  \A k \in DOMAIN agent.analysis_results : agent.analysis_results[k].value # NoneVal

====
